---- MODULE Spec2Model ----
(***************************************************************************)
(* The ETL pipeline of etl.py: process_song_data derives the songs and     *)
(* artists datasets from the song catalog, process_log_data derives the    *)
(* users, times and songplays datasets from the activity log, and main     *)
(* runs the two in sequence.  A DataFrame is a bag of rows (a function      *)
(* from row to number of copies); a persisted dataset is a map from         *)
(* partition key to the bag of rows stored under that partition.            *)
(***************************************************************************)
EXTENDS Bags, FiniteSets, Integers, Sequences, TLC

\* Bounds of the model.
MaxCatalog == 2     \* song files in the catalog input
MaxLog == 2         \* events in the activity log input

VARIABLES
    song_data,      \* the catalog input: one SongRecord per file
    log_data,       \* the activity log input: one ActivityEvent per line
    output,         \* the five datasets under output_data
    present,        \* names of the datasets that exist under output_data
    pc,             \* position of the running invocation
    caller,         \* "main", "process_log_data" (called on its own) or "none"
    todo,           \* stages the invocation still has to run, first is current
    song_df,        \* process_log_data's read-back of the songs dataset
    artist_df,      \* process_log_data's read-back of the artists dataset
    written,        \* history: datasets written so far by the invocation
    started,        \* history: songplays dataset as it was when the invocation began
    last            \* history: inputs and outputs of the last completed main run

vars == <<song_data, log_data, output, present, pc, caller, todo,
          song_df, artist_df, written, started, last>>

(***************************************************************************)
(* Generic helpers.                                                        *)
(***************************************************************************)
Range(s) == {s[i] : i \in DOMAIN s}

SeqsUpTo(S, n) == UNION {[1..k -> S] : k \in 0..n}

RECURSIVE SumCopies(_, _)
SumCopies(B, S) ==
    IF S = {} THEN 0
    ELSE LET x == CHOOSE y \in S : TRUE
         IN  B[x] + SumCopies(B, S \ {x})

(***************************************************************************)
(* DataFrame operations of the processing engine, as the program uses them *)
(***************************************************************************)
\* spark.read.json: one row per record, duplicates kept.
read_json(files) ==
    [r \in Range(files) |-> Cardinality({i \in DOMAIN files : files[i] = r})]

\* df.select(...): project every row by cols (row -> projected row); copies add up.
select(df, cols) ==
    [r \in {cols[x] : x \in DOMAIN df} |->
        SumCopies(df, {x \in DOMAIN df : cols[x] = r})]

\* df.where(...): the rows in keep.
where(df, keep) == [r \in (DOMAIN df) \cap keep |-> df[r]]

\* df.dropDuplicates(): one copy of every distinct row.
dropDuplicates(df) == [r \in DOMAIN df |-> 1]

(***************************************************************************)
(* Persisted datasets.  df.write.parquet(path, partitionBy, 'overwrite')   *)
(* stores each row under the directory of its partition-column values,     *)
(* without those columns; spark.read.parquet puts them back.               *)
(***************************************************************************)
PartKey(r, cols) == [i \in DOMAIN cols |-> r[cols[i]]]

Strip(r, cols) == [f \in (DOMAIN r) \ Range(cols) |-> r[f]]

Attach(s, k, cols) ==
    [f \in (DOMAIN s) \cup Range(cols) |->
        IF f \in DOMAIN s THEN s[f]
        ELSE k[CHOOSE i \in DOMAIN cols : cols[i] = f]]

\* The files a DataFrame is written to: partition key -> rows of the partition.
parquet_files(df, cols) ==
    [k \in {PartKey(r, cols) : r \in DOMAIN df} |->
        [s \in {Strip(r, cols) : r \in {x \in DOMAIN df : PartKey(x, cols) = k}} |->
            df[CHOOSE x \in DOMAIN df : PartKey(x, cols) = k /\ Strip(x, cols) = s]]]

write_parquet_dynamic(old, new) ==
    [k \in (DOMAIN old) \cup (DOMAIN new) |->
        IF k \in DOMAIN new THEN new[k] ELSE old[k]]

\* mode='overwrite': the whole dataset directory is replaced.
write_parquet(old, new) == new

\* spark.read.parquet(path): the rows of all partitions.
read_parquet(ds, cols) ==
    LET rows == UNION {{Attach(s, k, cols) : s \in DOMAIN ds[k]} : k \in DOMAIN ds}
    IN  [r \in rows |-> ds[PartKey(r, cols)][Strip(r, cols)]]

(***************************************************************************)
(* Input domains.  Durations and lengths are values both files hold         *)
(* exactly.  An event's ts is counted in half seconds (ts * 500 is the      *)
(* log's millisecond value), which keeps real dates within 32-bit integers. *)
(***************************************************************************)
SongRecord(sid, t, aid, an, loc, y, d) ==
    [song_id |-> sid, title |-> t, artist_id |-> aid, artist_name |-> an,
     artist_location |-> loc, artist_latitude |-> IF loc = "Oslo" THEN 59 ELSE 51,
     artist_longitude |-> IF loc = "Oslo" THEN 10 ELSE 0, year |-> y, duration |-> d]

SongRecords ==
    { SongRecord("S1", "Song A", "AR1", "Artist X", "Oslo", 2000, 200),
      SongRecord("S1", "Song A", "AR1", "Artist X", "London", 2000, 200),
      SongRecord("S2", "Song A", "AR1", "Artist X", "Oslo", 2001, 200),
      SongRecord("S3", "Song B", "AR2", "Artist Y", "Oslo", 2000, 201) }

Identities ==
    { [userId |-> 1, firstName |-> "Ann", lastName |-> "Lee", gender |-> "F"],
      [userId |-> 2, firstName |-> "Bob", lastName |-> "Ray", gender |-> "M"] }

Tracks ==
    { [artist |-> "Artist X", song |-> "Song A", length |-> 200],
      [artist |-> "Artist X", song |-> "Song A", length |-> 201],
      [artist |-> "Artist Y", song |-> "Song A", length |-> 200],
      [artist |-> "Artist Z", song |-> "Song A", length |-> 200] }

\* 2000-01-15 10:00:00.5 and 2000-02-20 00:00:00.0 (UTC), in half seconds.
Timestamps == {1895860801, 1902009600}

Levels == {"free", "paid"}

Pages == {"NextSong", "Home"}

ActivityEvent(p, t, id, lv, tr) ==
    [page |-> p, ts |-> t, userId |-> id.userId, firstName |-> id.firstName,
     lastName |-> id.lastName, gender |-> id.gender, level |-> lv,
     sessionId |-> 100 + id.userId, location |-> "Bergen", userAgent |-> "Mozilla",
     song |-> tr.song, artist |-> tr.artist, length |-> tr.length]

BaseTrack == [artist |-> "Artist X", song |-> "Song A", length |-> 200]

BaseIdentity == [userId |-> 1, firstName |-> "Ann", lastName |-> "Lee", gender |-> "F"]

\* Events that vary in who played and when, and events that vary in what was played.
UserEvents ==
    {ActivityEvent(p, t, id, lv, BaseTrack) :
        p \in Pages, t \in Timestamps, id \in Identities, lv \in Levels}

TrackEvents ==
    {ActivityEvent("NextSong", 1895860801, BaseIdentity, "free", tr) : tr \in Tracks}

BaseCatalog ==
    << SongRecord("S1", "Song A", "AR1", "Artist X", "Oslo", 2000, 200) >>

\* The inputs a first run may find: a log of several events against one song, or
\* a catalog of several songs against a log of at most one play.
Inputs ==
    ({BaseCatalog} \X SeqsUpTo(UserEvents, MaxLog))
    \cup (SeqsUpTo(SongRecords, MaxCatalog) \X SeqsUpTo(TrackEvents, 1))

\* The inputs a later run may find in their place.
LaterInputs ==
    { << <<SongRecord("S3", "Song B", "AR2", "Artist Y", "Oslo", 2000, 201)>>,
         <<ActivityEvent("NextSong", 1902009600, BaseIdentity, "paid", BaseTrack)>> >>,
      << <<SongRecord("S1", "Song A", "AR1", "Artist X", "Oslo", 2000, 200),
           SongRecord("S1", "Song A", "AR1", "Artist X", "London", 2000, 200)>>,
         <<ActivityEvent("NextSong", 1895860801, BaseIdentity, "free", BaseTrack),
           ActivityEvent("NextSong", 1902009600, BaseIdentity, "paid",
                         [artist |-> "Artist Z", song |-> "Song A", length |-> 200])>> >> }

(***************************************************************************)
(* Timestamps and calendar fields (UTC).                                   *)
(***************************************************************************)
\* get_datetime: datetime.fromtimestamp(epoch / 1000.0); epoch is in half seconds here.
get_datetime(epoch) == [seconds |-> epoch \div 2, millis |-> (epoch % 2) * 500]

EpochDay(st) == st.seconds \div 86400

\* Civil date of a day number (proleptic Gregorian calendar).
CivilDate(days) ==
    LET z   == days + 719468
        era == z \div 146097
        doe == z - era * 146097
        yoe == (doe - doe \div 1460 + doe \div 36524 - doe \div 146096) \div 365
        doy == doe - (365 * yoe + yoe \div 4 - yoe \div 100)
        mp  == (5 * doy + 2) \div 153
        d   == doy - (153 * mp + 2) \div 5 + 1
        m   == IF mp < 10 THEN mp + 3 ELSE mp - 9
        y   == yoe + era * 400 + (IF m <= 2 THEN 1 ELSE 0)
    IN  [year |-> y, month |-> m, day |-> d]

IsLeap(y) == (y % 4 = 0 /\ y % 100 # 0) \/ y % 400 = 0

DayOfYear(c) ==
    LET before == <<0, 31, 59, 90, 120, 151, 181, 212, 243, 273, 304, 334>>
    IN  before[c.month] + c.day + (IF IsLeap(c.year) /\ c.month > 2 THEN 1 ELSE 0)

\* 1 = Monday ... 7 = Sunday; 1970-01-01 was a Thursday.
IsoWeekday(days) == ((days + 3) % 7) + 1

WeeksInYear(y) ==
    LET p(n) == (n + n \div 4 - n \div 100 + n \div 400) % 7
    IN  IF p(y) = 4 \/ p(y - 1) = 3 THEN 53 ELSE 52

hour(st) == (st.seconds % 86400) \div 3600

dayofmonth(st) == CivilDate(EpochDay(st)).day

month(st) == CivilDate(EpochDay(st)).month

year(st) == CivilDate(EpochDay(st)).year

weekofyear(st) ==
    LET c == CivilDate(EpochDay(st))
        w == (DayOfYear(c) - IsoWeekday(EpochDay(st)) + 10) \div 7
    IN  IF w < 1 THEN WeeksInYear(c.year - 1)
        ELSE IF w > WeeksInYear(c.year) THEN 1 ELSE w

\* date_format(start_time, 'E')
weekday(st) ==
    <<"Mon", "Tue", "Wed", "Thu", "Fri", "Sat", "Sun">>[IsoWeekday(EpochDay(st))]

(***************************************************************************)
(* process_song_data: the songs and artists tables.                        *)
(***************************************************************************)
SongRow(r) ==
    [song_id |-> r.song_id, title |-> r.title, artist_id |-> r.artist_id,
     year |-> r.year, duration |-> r.duration]

ArtistRow(r) ==
    [artist_id |-> r.artist_id, name |-> r.artist_name, location |-> r.artist_location,
     latitude |-> r.artist_latitude, longitude |-> r.artist_longitude]

songs_table_all(df) == select(df, [x \in DOMAIN df |-> SongRow(x)])

songs_table(df) == dropDuplicates(select(df, [x \in DOMAIN df |-> SongRow(x)]))

artists_table(df) == dropDuplicates(select(df, [x \in DOMAIN df |-> ArtistRow(x)]))

songs_partitionBy == <<"year", "artist_id">>

times_partitionBy == <<"year", "month">>

songplays_partitionBy == <<"year", "month">>

unpartitioned == << >>

(***************************************************************************)
(* process_log_data: the users, times and songplays tables.                *)
(***************************************************************************)
IsNextSong(e) == e.page = "NextSong"

next_song_all(df) == df

\* df.where(df.page == "NextSong")
next_song(df) == where(df, {x \in DOMAIN df : IsNextSong(x)})

UserRow(e) ==
    [user_id |-> e.userId, first_name |-> e.firstName, last_name |-> e.lastName,
     gender |-> e.gender, level |-> e.level]

UserKey(r) == <<r.user_id, r.first_name, r.last_name, r.gender>>

\* df.sort('ts', ascending=False): the orders the rows can come in, latest first;
\* rows of equal ts come in either order.
sort_ts_desc(df) ==
    LET n == SumCopies(df, DOMAIN df)
    IN  {s \in [1..n -> DOMAIN df] :
            /\ \A x \in DOMAIN df : Cardinality({i \in 1..n : s[i] = x}) = df[x]
            /\ \A i, j \in 1..n : i < j => s[i].ts >= s[j].ts}

\* .select(...) on the sorted rows.
select_users(sorted) == [i \in DOMAIN sorted |-> UserRow(sorted[i])]

\* .dropDuplicates([user_id, first_name, last_name, gender]): one row of every
\* key.  Spark plans it as a grouping on the key that takes first() of the other
\* columns, after a shuffle on the key; first() is documented as depending on an
\* order of rows that the shuffle does not keep, so the row that survives is any
\* row of the key, whatever order the rows had before.
dropDuplicates_subset(rows) ==
    LET keys  == {UserKey(r) : r \in Range(rows)}
        picks == {f \in [keys -> Range(rows)] : \A k \in keys : UserKey(f[k]) = k}
    IN  {SetToBag({f[k] : k \in keys}) : f \in picks}

\* The tables users_table can evaluate to.
users_tables(df) ==
    UNION {dropDuplicates_subset(select_users(s)) : s \in sort_ts_desc(df)}

\* df.withColumn("start_time", get_datetime(df.ts))
WithStartTime(e) ==
    [f \in (DOMAIN e) \cup {"start_time"} |->
        IF f = "start_time" THEN get_datetime(e.ts) ELSE e[f]]

with_start_time(df) == select(df, [x \in DOMAIN df |-> WithStartTime(x)])

TimeRow(e) ==
    [start_time |-> e.start_time, hour |-> hour(e.start_time),
     day |-> dayofmonth(e.start_time), week |-> weekofyear(e.start_time),
     month |-> month(e.start_time), year |-> year(e.start_time),
     weekday |-> weekday(e.start_time)]

time_table(df) == select(df, [x \in DOMAIN df |-> TimeRow(x)])

join_artists_cross(df, adf) ==
    [m \in (DOMAIN df) \X (DOMAIN adf) |-> df[m[1]] * adf[m[2]]]

\* df.join(artist_df, df.artist == artist_df.name, "inner")
join_artists(df, adf) ==
    [m \in {p \in (DOMAIN df) \X (DOMAIN adf) : p[1].artist = p[2].name} |->
        df[m[1]] * adf[m[2]]]

song_on_title_duration(e, a, s) == e.song = s.title /\ e.length = s.duration

\* The join condition on song_df.
song_on(e, a, s) ==
    /\ a.artist_id = s.artist_id
    /\ e.song = s.title
    /\ e.length = s.duration

\* .join(song_df, [...], "inner")
join_songs(joined, sdf) ==
    [m \in {t \in {<<p[1], p[2], s>> : p \in DOMAIN joined, s \in DOMAIN sdf} :
               song_on(t[1], t[2], t[3])} |->
        joined[<<m[1], m[2]>>] * sdf[m[3]]]

SongplayRow(m) ==
    [start_time |-> m[1].start_time, user_id |-> m[1].userId, level |-> m[1].level,
     song_id |-> m[3].song_id, artist_id |-> m[2].artist_id,
     session_id |-> m[1].sessionId, location |-> m[1].location,
     user_agent |-> m[1].userAgent, year |-> year(m[1].start_time),
     month |-> month(m[1].start_time)]

songplays_table(df, adf, sdf) ==
    LET joined == join_songs(join_artists(df, adf), sdf)
    IN  select(joined, [m \in DOMAIN joined |-> SongplayRow(m)])

(***************************************************************************)
(* The program: main, and process_log_data called on its own.              *)
(***************************************************************************)
Datasets == {"songs", "artists", "users", "times", "songplays"}

NoFiles == [k \in {} |-> EmptyBag]

EmptyOutput == [d \in Datasets |-> NoFiles]

NoRun == [valid |-> FALSE, song_data |-> << >>, log_data |-> << >>, output |-> EmptyOutput]

NotStarted == [exists |-> FALSE, files |-> NoFiles]

Steps_read_first(stage) ==
    IF stage = "process_song_data" THEN <<"songs", "artists">>
    ELSE <<"read", "users", "times", "songplays">>

\* The statements of a stage that act on the output, in program order.
Steps(stage) ==
    IF stage = "process_song_data" THEN <<"songs", "artists">>
    ELSE <<"users", "times", "read", "songplays">>

main_stages_log_first == <<"process_log_data", "process_song_data">>

\* main calls process_song_data, then process_log_data.
main_stages == <<"process_song_data", "process_log_data">>

Enter(stages) == IF stages = << >> THEN "done" ELSE Steps(stages[1])[1]

Init ==
    /\ \E in \in Inputs : song_data = in[1] /\ log_data = in[2]
    /\ output = EmptyOutput
    /\ present = {}
    /\ pc = "idle"
    /\ caller = "none"
    /\ todo = << >>
    /\ song_df = EmptyBag
    /\ artist_df = EmptyBag
    /\ written = {}
    /\ started = NotStarted
    /\ last = NoRun

Begin(who, stages) ==
    /\ caller' = who
    /\ todo' = stages
    /\ pc' = Enter(stages)
    /\ written' = {}
    /\ started' = [exists |-> "songplays" \in present, files |-> output.songplays]
    /\ UNCHANGED <<song_data, log_data, output, present, song_df, artist_df, last>>

\* main(): create_spark_session(), then the stages.
main ==
    /\ pc = "idle"
    /\ Begin("main", main_stages)

\* process_log_data(spark, input_data, output_data) called without main.
process_log_data_call ==
    /\ pc = "idle"
    /\ Begin("process_log_data", <<"process_log_data">>)

\* On to the next statement of the stage, or into the next stage.
Advance ==
    LET st == Steps(todo[1])
        i  == CHOOSE n \in DOMAIN st : st[n] = pc
    IN  IF i < Len(st)
        THEN pc' = st[i + 1] /\ todo' = todo
        ELSE pc' = Enter(Tail(todo)) /\ todo' = Tail(todo)

\* df.write.parquet(path, partitionBy, mode='overwrite') on the dataset name.
Write(name, df, cols) ==
    /\ output' = [output EXCEPT ![name] = write_parquet(@, parquet_files(df, cols))]
    /\ present' = present \cup {name}
    /\ written' = written \cup {name}
    /\ Advance

\* An uncaught exception ends the invocation where it is.
Raise ==
    /\ pc' = "failed"
    /\ UNCHANGED <<output, present, written, todo>>

\* spark.read.json(song_data); songs_table.write.parquet(...)
process_song_data_songs ==
    /\ pc = "songs"
    /\ IF song_data = << >>
       THEN Raise
       ELSE Write("songs", songs_table(read_json(song_data)), songs_partitionBy)
    /\ UNCHANGED <<song_data, log_data, caller, song_df, artist_df, started, last>>

\* artists_table.write.parquet(...), and process_song_data returns.
process_song_data_artists ==
    /\ pc = "artists"
    /\ Write("artists", artists_table(read_json(song_data)), unpartitioned)
    /\ UNCHANGED <<song_data, log_data, caller, song_df, artist_df, started, last>>

\* spark.read.json(log_data), the filter, users_table.write.parquet(...)
process_log_data_users ==
    /\ pc = "users"
    /\ IF log_data = << >>
       THEN Raise
       ELSE \E ut \in users_tables(next_song(read_json(log_data))) :
                Write("users", ut, unpartitioned)
    /\ UNCHANGED <<song_data, log_data, caller, song_df, artist_df, started, last>>

\* time_table.write.parquet(...)
process_log_data_times ==
    /\ pc = "times"
    /\ Write("times", time_table(with_start_time(next_song(read_json(log_data)))),
             times_partitionBy)
    /\ UNCHANGED <<song_data, log_data, caller, song_df, artist_df, started, last>>

\* spark.read.parquet of songs and of artists; a path that does not exist raises.
process_log_data_read ==
    /\ pc = "read"
    /\ IF {"songs", "artists"} \subseteq present
       THEN /\ song_df' = read_parquet(output.songs, songs_partitionBy)
            /\ artist_df' = read_parquet(output.artists, unpartitioned)
            /\ Advance
            /\ UNCHANGED <<output, present, written>>
       ELSE Raise /\ UNCHANGED <<song_df, artist_df>>
    /\ UNCHANGED <<song_data, log_data, caller, started, last>>

\* The join, songplays_table.write.parquet(...), and process_log_data returns.
process_log_data_songplays ==
    /\ pc = "songplays"
    /\ Write("songplays",
             songplays_table(with_start_time(next_song(read_json(log_data))),
                             artist_df, song_df),
             songplays_partitionBy)
    /\ song_df' = EmptyBag
    /\ artist_df' = EmptyBag
    /\ UNCHANGED <<song_data, log_data, caller, started, last>>

End ==
    /\ pc' = "idle"
    /\ caller' = "none"
    /\ todo' = << >>
    /\ written' = {}
    /\ started' = NotStarted
    /\ UNCHANGED <<song_data, log_data, output, present, song_df, artist_df>>

\* spark.stop(): main has run to its end.
spark_stop ==
    /\ pc = "done"
    /\ caller = "main"
    /\ last' = [valid |-> TRUE, song_data |-> song_data, log_data |-> log_data,
                output |-> output]
    /\ End

process_log_data_return ==
    /\ pc = "done"
    /\ caller = "process_log_data"
    /\ UNCHANGED last
    /\ End

\* The process ends with the uncaught exception.
exit_failed ==
    /\ pc = "failed"
    /\ UNCHANGED last
    /\ End

\* Between invocations the first input files are replaced by others.
replace_input ==
    /\ pc = "idle"
    /\ <<song_data, log_data>> \notin LaterInputs
    /\ \E in \in LaterInputs :
            song_data' = in[1] /\ log_data' = in[2]
    /\ UNCHANGED <<output, present, pc, caller, todo, song_df, artist_df,
                   written, started, last>>

Next ==
    \/ main
    \/ process_log_data_call
    \/ process_song_data_songs
    \/ process_song_data_artists
    \/ process_log_data_users
    \/ process_log_data_times
    \/ process_log_data_read
    \/ process_log_data_songplays
    \/ spark_stop
    \/ process_log_data_return
    \/ exit_failed
    \/ replace_input

Spec == Init /\ [][Next]_vars

(***************************************************************************)
(* The tables as a reader of the output finds them, and the log's plays.   *)
(***************************************************************************)
Songs == read_parquet(output.songs, songs_partitionBy)

Artists == read_parquet(output.artists, unpartitioned)

Users == read_parquet(output.users, unpartitioned)

Times == read_parquet(output.times, times_partitionBy)

Songplays == read_parquet(output.songplays, songplays_partitionBy)

Plays == {i \in DOMAIN log_data : log_data[i].page = "NextSong"}

SameIdentity(r, e) ==
    /\ r.user_id = e.userId
    /\ r.first_name = e.firstName
    /\ r.last_name = e.lastName
    /\ r.gender = e.gender

\* The row r is the song of the catalog record rec.
SameSong(r, rec) ==
    /\ r.song_id = rec.song_id
    /\ r.title = rec.title
    /\ r.artist_id = rec.artist_id
    /\ r.year = rec.year
    /\ r.duration = rec.duration

\* The songplays row r carries the values of the event e.
FromEvent(r, e) ==
    /\ r.start_time = get_datetime(e.ts)
    /\ r.user_id = e.userId
    /\ r.level = e.level
    /\ r.session_id = e.sessionId
    /\ r.location = e.location
    /\ r.user_agent = e.userAgent

\* The (artists row, songs row) pairs of the output that match the event e.
Matches(e) ==
    {m \in (DOMAIN Artists) \X (DOMAIN Songs) :
        /\ m[1].name = e.artist
        /\ m[2].artist_id = m[1].artist_id
        /\ m[2].title = e.song
        /\ m[2].duration = e.length}

\* Number of matching pairs of the events of the log at the indices I.
RECURSIVE SumMatches(_)
SumMatches(I) ==
    IF I = {} THEN 0
    ELSE LET i == CHOOSE n \in I : TRUE
         IN  Cardinality(Matches(log_data[i])) + SumMatches(I \ {i})

\* process_log_data has run to its end on the present log.
LogStageDone == pc = "done" /\ "songplays" \in written

(***************************************************************************)
(* C1.  After process_log_data every users row carries the level of a      *)
(* NextSong event of its identity that no NextSong event of that identity  *)
(* is later than.                                                          *)
(***************************************************************************)
C1_UsersLevelIsLatest ==
    "users" \in written =>
        \A r \in DOMAIN Users :
            \E i \in Plays :
                /\ SameIdentity(r, log_data[i])
                /\ r.level = log_data[i].level
                /\ \A j \in Plays :
                       SameIdentity(r, log_data[j]) => log_data[j].ts <= log_data[i].ts

(***************************************************************************)
(* C5.  An event whose page is not NextSong contributes nothing: every     *)
(* users row is the identity and level of a NextSong event, the times      *)
(* table has one row per NextSong event and each is the time of one, and   *)
(* the songplays rows are as many as the matches of the NextSong events    *)
(* and each is the time, user and level of one.                            *)
(***************************************************************************)
C5_OnlyNextSongContributes ==
    LogStageDone =>
        /\ \A r \in DOMAIN Users :
               \E i \in Plays : SameIdentity(r, log_data[i]) /\ r.level = log_data[i].level
        /\ BagCardinality(Times) = Cardinality(Plays)
        /\ \A r \in DOMAIN Times :
               /\ \E i \in Plays : r.start_time = get_datetime(log_data[i].ts)
               /\ Times[r] = Cardinality({i \in Plays :
                                             get_datetime(log_data[i].ts) = r.start_time})
        /\ BagCardinality(Songplays) = SumMatches(Plays)
        /\ \A r \in DOMAIN Songplays :
               \E i \in Plays :
                   /\ r.start_time = get_datetime(log_data[i].ts)
                   /\ r.user_id = log_data[i].userId
                   /\ r.level = log_data[i].level

\* A log whose latest event of a user is not a play, next to an earlier play.
C5_Witness ==
    /\ LogStageDone
    /\ \E i \in Plays, j \in DOMAIN log_data :
           /\ log_data[j].page # "NextSong"
           /\ log_data[j].userId = log_data[i].userId
           /\ log_data[j].ts > log_data[i].ts
           /\ log_data[j].level # log_data[i].level
    /\ DOMAIN Users # {}

(***************************************************************************)
(* C9.  After process_song_data the songs table holds exactly one row for  *)
(* each (song_id, title, artist_id, year, duration) of the catalog, and    *)
(* no other row.                                                           *)
(***************************************************************************)
C9_OneRowPerSong ==
    "songs" \in written =>
        /\ \A n \in DOMAIN song_data :
               SumCopies(Songs, {r \in DOMAIN Songs : SameSong(r, song_data[n])}) = 1
        /\ \A r \in DOMAIN Songs : \E n \in DOMAIN song_data : SameSong(r, song_data[n])

\* Two catalog records carry the same song and the table holds it once.
C9_Witness ==
    /\ "songs" \in written
    /\ \E m, n \in DOMAIN song_data :
           m # n /\ SongRow(song_data[m]) = SongRow(song_data[n])
    /\ BagCardinality(Songs) = 1

(***************************************************************************)
(* C2.  In a run of main the read-back of songs and artists comes after    *)
(* process_song_data has written both in that run, and the frames the join *)
(* uses hold the rows of this run's catalog.                               *)
(***************************************************************************)
C2_ReadBackAfterSongStage ==
    caller = "main" =>
        /\ pc = "read" => {"songs", "artists"} \subseteq written
        /\ pc = "songplays" =>
               /\ {"songs", "artists"} \subseteq written
               /\ song_df = songs_table(read_json(song_data))
               /\ artist_df = artists_table(read_json(song_data))

\* A run of main about to join, after an earlier run on another catalog.
C2_Witness ==
    /\ caller = "main"
    /\ pc = "songplays"
    /\ last.valid
    /\ last.song_data # song_data
    /\ read_parquet(last.output.songs, songs_partitionBy) # song_df

(***************************************************************************)
(* C3.  Every songplays row comes from a NextSong event for which the      *)
(* persisted artists table has a row of the event's artist name and the    *)
(* persisted songs table a row of that artist_id, the event's song title   *)
(* and exactly the event's length; the row carries their ids.              *)
(***************************************************************************)
C3_SongplaysOnlyFromMatches ==
    LogStageDone =>
        \A r \in DOMAIN Songplays :
            \E i \in Plays :
                /\ FromEvent(r, log_data[i])
                /\ \E m \in Matches(log_data[i]) :
                       r.artist_id = m[1].artist_id /\ r.song_id = m[2].song_id

\* A play that matched, next to a play whose title a song has that is not a
\* song of an artist of the play's name.
C3_Witness ==
    /\ LogStageDone
    /\ DOMAIN Songplays # {}
    /\ \E i \in Plays, s \in DOMAIN Songs :
           /\ s.title = log_data[i].song
           /\ \A a \in DOMAIN Artists : a.name = log_data[i].artist => a.artist_id # s.artist_id

(***************************************************************************)
(* C4.  The songplays rows emitted for a NextSong event are as many as the *)
(* (artists row, songs row) pairs that match it: none without a match, k   *)
(* for k matches.  Rows are told apart by the event they carry, so the     *)
(* count is taken over the events that put the same values in a row.       *)
(***************************************************************************)
C4_OneRowPerMatch ==
    LogStageDone =>
        /\ \A i \in Plays :
               SumCopies(Songplays, {r \in DOMAIN Songplays : FromEvent(r, log_data[i])})
                   = SumMatches({j \in Plays :
                                    \A f \in {"ts", "userId", "level", "sessionId",
                                              "location", "userAgent"} :
                                        log_data[j][f] = log_data[i][f]})
        /\ \A r \in DOMAIN Songplays : \E i \in Plays : FromEvent(r, log_data[i])

\* A log with a play that has several matches, the artist being kept twice for
\* two locations, and a play that has none.
C4_Witness ==
    /\ LogStageDone
    /\ \E i, j \in Plays :
           /\ Cardinality(Matches(log_data[i])) >= 2
           /\ SumCopies(Songplays, {r \in DOMAIN Songplays : FromEvent(r, log_data[i])}) >= 2
           /\ Matches(log_data[j]) = {}
           /\ {r \in DOMAIN Songplays : FromEvent(r, log_data[j])} = {}

(***************************************************************************)
(* C6.  A second run of main on unchanged input leaves every dataset with  *)
(* the rows the first run left.                                            *)
(***************************************************************************)
C6_RerunLeavesSameRows ==
    (/\ pc = "done"
     /\ caller = "main"
     /\ last.valid
     /\ last.song_data = song_data
     /\ last.log_data = log_data)
        => \A d \in Datasets : output[d] = last.output[d]

(***************************************************************************)
(* C7.  After a successful run of main each dataset holds exactly what     *)
(* this run's input yields; nothing of an earlier run remains.             *)
(***************************************************************************)
C7_OutputIsThisRunsOnly ==
    (pc = "done" /\ caller = "main") =>
        LET cat   == read_json(song_data)
            plays == next_song(read_json(log_data))
        IN  /\ output.songs = parquet_files(songs_table(cat), songs_partitionBy)
            /\ output.artists = parquet_files(artists_table(cat), unpartitioned)
            /\ \E ut \in users_tables(plays) :
                   output.users = parquet_files(ut, unpartitioned)
            /\ output.times = parquet_files(time_table(with_start_time(plays)),
                                            times_partitionBy)
            /\ output.songplays =
                   parquet_files(songplays_table(with_start_time(plays),
                                                 artists_table(cat), songs_table(cat)),
                                 songplays_partitionBy)
            /\ Datasets \subseteq present

\* A run on new input whose partitions leave those of the earlier run unmatched.
C7_Witness ==
    /\ pc = "done"
    /\ caller = "main"
    /\ last.valid
    /\ (DOMAIN last.output.songs) \ (DOMAIN output.songs) # {}
    /\ (DOMAIN last.output.times) \ (DOMAIN output.times) # {}
    /\ (DOMAIN last.output.songplays) \ (DOMAIN output.songplays) # {}
    /\ last.output.users # output.users

(***************************************************************************)
(* C8.  process_log_data run without process_song_data in the same         *)
(* invocation never runs to its end.                                       *)
(***************************************************************************)
C8_LogStageAloneFails ==
    ~(caller = "process_log_data" /\ pc = "done")

(***************************************************************************)
(* C10.  process_log_data writes users, then times, then reads back and    *)
(* then writes songplays; when the read-back fails, users and times hold   *)
(* this run's data and songplays is as it was when the invocation began.   *)
(***************************************************************************)
C10_FailedReadLeavesMixedOutput ==
    [][(pc = "read" /\ pc' = "failed") =>
          /\ {"users", "times"} \subseteq written'
          /\ "songplays" \notin written'
          /\ \E ut \in users_tables(next_song(read_json(log_data))) :
                 output'.users = parquet_files(ut, unpartitioned)
          /\ output'.times =
                 parquet_files(time_table(with_start_time(next_song(read_json(log_data)))),
                               times_partitionBy)
          /\ output'.songplays = started.files
          /\ ("songplays" \in present') = started.exists]_vars

\* The read-back has failed with new users and times and no songplays.
C10_Witness ==
    /\ pc = "failed"
    /\ {"users", "times"} \subseteq written
    /\ DOMAIN Users # {}
    /\ DOMAIN Times # {}
    /\ "songplays" \notin present

====
